---------------------------- MODULE Spec2Model ----------------------------
(***************************************************************************)
(* Model of env-guardian: EnvGuardian.validate, the type coercers it       *)
(* dispatches to, and the envGuardian convenience function.                *)
(*                                                                         *)
(* Representation.  A JavaScript string is a sequence of one-character     *)
(* strings.  A JavaScript value is a record tagged by t (undefined, null,  *)
(* string, number, boolean, array).  A number is held in tenths, so 15     *)
(* stands for 1.5; the decimal literals of the model                      *)
(* have at most one fractional digit.  An optional numeric option of a     *)
(* field config is the empty set (undefined) or a singleton.               *)
(***************************************************************************)
EXTENDS Integers, Sequences, FiniteSets, TLC

\* ------------------------------------------------------------------ bounds
MaxFields == 2

\* ------------------------------------------------------- JavaScript values
JSUndef == [t |-> "undefined"]
JSNull == [t |-> "null"]
JSStr(s) == [t |-> "string", v |-> s]
JSNum(n) == [t |-> "number", v |-> n]
JSBool(b) == [t |-> "boolean", v |-> b]
JSArr(a) == [t |-> "array", v |-> a]

Opt(o) == CHOOSE x \in o : TRUE

\* `x &&` on an optional numeric option: undefined and 0 are falsy
TruthyNum(o) == o # {} /\ Opt(o) # 0

Digits == <<"0", "1", "2", "3", "4", "5", "6", "7", "8", "9">>

IsDigit(c) == \E d \in 1..10 : Digits[d] = c

DigitVal(c) == (CHOOSE d \in 1..10 : Digits[d] = c) - 1

UpperCase == <<"T", "R", "U", "E", "Y", "S", "N", "O", "F", "A", "L", "P">>

LowerCase == <<"t", "r", "u", "e", "y", "s", "n", "o", "f", "a", "l", "p">>

IsAlpha(c) ==
  \/ \E k \in DOMAIN UpperCase : UpperCase[k] = c
  \/ c \in {"a", "b", "c", "d", "e", "f", "g", "h", "i", "j", "k", "l", "m",
            "n", "o", "p", "q", "r", "s", "t", "u", "v", "w", "x", "y", "z"}

ToLowerChar(c) ==
  IF \E k \in DOMAIN UpperCase : UpperCase[k] = c
    THEN LowerCase[CHOOSE k \in DOMAIN UpperCase : UpperCase[k] = c]
    ELSE c

\* String.prototype.toLowerCase
ToLowerCase(s) == [k \in 1..Len(s) |-> ToLowerChar(s[k])]

IsSpace(c) == c = " "

RECURSIVE TrimStart(_)
TrimStart(s) ==
  IF s # <<>> /\ IsSpace(Head(s)) THEN TrimStart(Tail(s)) ELSE s

RECURSIVE TrimEnd(_)
TrimEnd(s) ==
  IF s # <<>> /\ IsSpace(s[Len(s)]) THEN TrimEnd(SubSeq(s, 1, Len(s) - 1)) ELSE s

\* String.prototype.trim
Trim(s) == TrimEnd(TrimStart(s))

StartsWith(s, p) == Len(s) >= Len(p) /\ SubSeq(s, 1, Len(p)) = p

\* String.prototype.split with a non-empty separator
RECURSIVE SplitFrom(_, _, _)
SplitFrom(s, sep, cur) ==
  IF s = <<>> THEN <<cur>>
  ELSE IF StartsWith(s, sep)
    THEN <<cur>> \o SplitFrom(SubSeq(s, Len(sep) + 1, Len(s)), sep, <<>>)
    ELSE SplitFrom(Tail(s), sep, Append(cur, Head(s)))

Split(s, sep) == SplitFrom(s, sep, <<>>)

\* Array.prototype.join
RECURSIVE Join(_, _)
Join(items, sep) ==
  IF items = <<>> THEN <<>>
  ELSE IF Len(items) = 1 THEN items[1]
  ELSE items[1] \o sep \o Join(Tail(items), sep)

RECURSIVE DigitsToNat(_, _)
DigitsToNat(s, acc) ==
  IF s = <<>> THEN acc ELSE DigitsToNat(Tail(s), acc * 10 + DigitVal(Head(s)))

AllDigits(s) == \A k \in 1..Len(s) : IsDigit(s[k])

IndexOf(s, c) ==
  IF \E k \in 1..Len(s) : s[k] = c
    THEN CHOOSE k \in 1..Len(s) : s[k] = c /\ \A j \in 1..(k - 1) : s[j] # c
    ELSE 0

\* unsigned decimal literal -> {} (no parse) or {tenths}
UnsignedToNumber(u) ==
  LET dot == IndexOf(u, ".")
      ip == IF dot = 0 THEN u ELSE SubSeq(u, 1, dot - 1)
      fp == IF dot = 0 THEN <<>> ELSE SubSeq(u, dot + 1, Len(u))
  IN IF u = <<>> \/ ~AllDigits(ip) \/ ~AllDigits(fp) \/ (ip = <<>> /\ fp = <<>>)
          \/ Len(fp) > 1
       THEN {}
       ELSE {DigitsToNat(ip, 0) * 10 + DigitsToNat(fp, 0)}

\* Number(value): {} is NaN.  Number("") and Number("  ") are 0.
ToNumber(s) ==
  LET tr == Trim(s)
  IN IF tr = <<>> THEN {0}
     ELSE IF Head(tr) = "-"
       THEN {0 - n : n \in UnsignedToNumber(Tail(tr))}
     ELSE IF Head(tr) = "+" THEN UnsignedToNumber(Tail(tr))
     ELSE UnsignedToNumber(tr)

RECURSIVE NatToDigits(_)
NatToDigits(n) ==
  IF n < 10 THEN <<Digits[n + 1]>>
  ELSE Append(NatToDigits(n \div 10), Digits[(n % 10) + 1])

\* Number.prototype.toString for a number held in tenths
NumToString(n) ==
  LET a == IF n < 0 THEN 0 - n ELSE n
      body == NatToDigits(a \div 10)
               \o (IF a % 10 = 0 THEN <<>> ELSE <<".", Digits[(a % 10) + 1]>>)
  IN IF n < 0 THEN <<"-">> \o body ELSE body

\* String(v)
ToStringJS(v) ==
  CASE v.t = "string" -> v.v
    [] v.t = "number" -> NumToString(v.v)
    [] v.t = "boolean" -> IF v.v THEN <<"t", "r", "u", "e">> ELSE <<"f", "a", "l", "s", "e">>
    [] v.t = "null" -> <<"n", "u", "l", "l">>
    [] v.t = "array" -> Join(v.v, <<",">>)
    [] OTHER -> <<"u", "n", "d", "e", "f", "i", "n", "e", "d">>

\* ------------------------------------------------------------------ errors
\* new EnvGuardianError(message, variable); variable is <<>> when not passed
EnvGuardianError(message, variable) ==
  [name |-> "EnvGuardianError", message |-> message, variable |-> variable]

\* new Error(message): no variable property
PlainError(message) == [name |-> "Error", message |-> message, variable |-> <<>>]

TypeError(message) == [name |-> "TypeError", message |-> message, variable |-> <<>>]

Return(v) == [ok |-> TRUE, val |-> v]

Throw(e) == [ok |-> FALSE, err |-> e]

\* ---------------------------------------------------------------- coercers
\* RegExp.test for the patterns a schema of the model may carry
PatternTest(pattern, value) ==
  CASE pattern = "alnum" ->
         /\ value # <<>>
         /\ \A k \in 1..Len(value) : IsAlpha(value[k]) \/ IsDigit(value[k]) \/ value[k] = "_"
    [] OTHER -> TRUE

validateString(value, key, config) ==
  IF TruthyNum(config.minLength) /\ Len(value) < Opt(config.minLength)
    THEN Throw(EnvGuardianError(<<"must be at least characters long", key, Opt(config.minLength)>>, <<key>>))
  ELSE IF TruthyNum(config.maxLength) /\ Len(value) > Opt(config.maxLength)
    THEN Throw(EnvGuardianError(<<"must be no more than characters long", key, Opt(config.maxLength)>>, <<key>>))
  ELSE IF config.pattern # {} /\ ~PatternTest(Opt(config.pattern), value)
    THEN Throw(EnvGuardianError(<<"does not match required pattern", key>>, <<key>>))
  ELSE Return(JSStr(value))

validateNumber(value, key, config) ==
  LET num == ToNumber(value)
  IN IF num = {}
       THEN Throw(EnvGuardianError(<<"Invalid type. Expected number", key, value>>, <<key>>))
     ELSE IF config.min # {} /\ Opt(num) < Opt(config.min)
       THEN Throw(EnvGuardianError(<<"must be at least", key, Opt(config.min)>>, <<key>>))
     ELSE IF config.max # {} /\ Opt(num) > Opt(config.max)
       THEN Throw(EnvGuardianError(<<"must be no more than", key, Opt(config.max)>>, <<key>>))
     ELSE IF config.integer /\ Opt(num) % 10 # 0
       THEN Throw(EnvGuardianError(<<"must be an integer", key>>, <<key>>))
     ELSE Return(JSNum(Opt(num)))

validateBoolean(value, key) ==
  LET lowerValue == ToLowerCase(value)
  IN IF lowerValue \in {<<"t", "r", "u", "e">>, <<"1">>, <<"y", "e", "s">>}
       THEN Return(JSBool(TRUE))
     ELSE IF lowerValue \in {<<"f", "a", "l", "s", "e">>, <<"0">>, <<"n", "o">>}
       THEN Return(JSBool(FALSE))
     ELSE Throw(EnvGuardianError(<<"Invalid type. Expected boolean", key, value>>, <<key>>))

\* validateArray with ';' as the default separator
validateArray_SemicolonDefault(value, key, config) ==
  LET separator == IF config.separator # <<>> THEN config.separator ELSE <<";">>
      parts == Split(value, separator)
      items == [k \in 1..Len(parts) |-> Trim(parts[k])]
  IN IF TruthyNum(config.minLength) /\ Len(items) < Opt(config.minLength)
       THEN Throw(EnvGuardianError(<<"must have at least items", key, Opt(config.minLength)>>, <<key>>))
     ELSE IF TruthyNum(config.maxLength) /\ Len(items) > Opt(config.maxLength)
       THEN Throw(EnvGuardianError(<<"must have no more than items", key, Opt(config.maxLength)>>, <<key>>))
     ELSE Return(JSArr(items))

validateArray(value, key, config) ==
  LET separator == IF config.separator # <<>> THEN config.separator ELSE <<",">>
      parts == Split(value, separator)
      items == [k \in 1..Len(parts) |-> Trim(parts[k])]
  IN IF TruthyNum(config.minLength) /\ Len(items) < Opt(config.minLength)
       THEN Throw(EnvGuardianError(<<"must have at least items", key, Opt(config.minLength)>>, <<key>>))
     ELSE IF TruthyNum(config.maxLength) /\ Len(items) > Opt(config.maxLength)
       THEN Throw(EnvGuardianError(<<"must have no more than items", key, Opt(config.maxLength)>>, <<key>>))
     ELSE Return(JSArr(items))

SpecialSchemes ==
  {<<"h", "t", "t", "p">>, <<"h", "t", "t", "p", "s">>, <<"f", "t", "p">>,
   <<"w", "s">>, <<"w", "s", "s">>, <<"f", "i", "l", "e">>}

IsSchemeChar(c) == IsAlpha(c) \/ IsDigit(c) \/ c \in {"+", "-", "."}

IsHostChar(c) == IsAlpha(c) \/ IsDigit(c) \/ c \in {"-", "."}

RECURSIVE StripSlashes(_)
StripSlashes(s) == IF s # <<>> /\ Head(s) = "/" THEN StripSlashes(Tail(s)) ELSE s

\* the authority of "//authority/path": the characters up to the next "/"
Authority(rest) ==
  LET a == SubSeq(rest, 3, Len(rest))
      slash == IndexOf(a, "/")
  IN IF slash = 0 THEN a ELSE SubSeq(a, 1, slash - 1)

\* new URL(value) without a base: {} when it throws, else {url.protocol}
\* (the lower-cased scheme followed by ":").  Authorities with userinfo or
\* a port are outside the raw values of the model.
UrlProtocol(value) ==
  LET tr == Trim(value)
      colon == IndexOf(tr, ":")
      scheme == ToLowerCase(SubSeq(tr, 1, colon - 1))
      rest == SubSeq(tr, colon + 1, Len(tr))
  IN IF colon <= 1 \/ ~IsAlpha(tr[1]) \/ \E k \in 1..(colon - 1) : ~IsSchemeChar(tr[k])
       THEN {}
     ELSE IF scheme \in SpecialSchemes
       THEN LET host == Authority(<<"/", "/">> \o StripSlashes(rest))
            IN IF scheme # <<"f", "i", "l", "e">>
                    /\ (host = <<>> \/ \E k \in 1..Len(host) : ~IsHostChar(host[k]))
                 THEN {}
                 ELSE {Append(scheme, ":")}
     ELSE IF StartsWith(rest, <<"/", "/">>)
               /\ \E k \in 1..Len(Authority(rest)) : ~IsHostChar(Authority(rest)[k])
       THEN {}
     ELSE {Append(scheme, ":")}

\* Array.prototype.includes on a list of strings
Includes(list, x) == \E k \in 1..Len(list) : list[k] = x

\* The throw of the protocol check sits inside the try block, so the catch
\* clause replaces it by the "Invalid URL" error.
validateUrl(value, key, config) ==
  LET protocol == UrlProtocol(value)
      tried ==
        IF protocol = {}
          THEN Throw(TypeError(<<"Invalid URL">>))
        ELSE IF config.protocols # {}
                  /\ ~Includes(Opt(config.protocols), SubSeq(Opt(protocol), 1, Len(Opt(protocol)) - 1))
          THEN Throw(EnvGuardianError(<<"must use one of these protocols", key, Opt(config.protocols)>>, <<key>>))
        ELSE Return(JSStr(value))
  IN IF tried.ok
       THEN tried
       ELSE Throw(EnvGuardianError(<<"Invalid URL", key, value>>, <<key>>))

\* /^[^\s@]+@[^\s@]+\.[^\s@]+$/
EmailPatternTest(value) ==
  LET at == IndexOf(value, "@")
      domain == SubSeq(value, at + 1, Len(value))
  IN /\ at > 1
     /\ \A k \in 1..Len(value) : ~IsSpace(value[k])
     /\ \A k \in 1..Len(domain) : domain[k] # "@"
     /\ \E k \in 2..(Len(domain) - 1) : domain[k] = "."

validateEmail(value, key) ==
  IF ~EmailPatternTest(value)
    THEN Throw(EnvGuardianError(<<"Invalid email format", key, value>>, <<key>>))
    ELSE Return(JSStr(value))

validateEnum(value, key, config) ==
  IF config.values.t # "array"
    THEN Throw(PlainError(<<"Enum validation requires 'values' array", key>>))
  ELSE IF ~Includes(config.values.v, value)
    THEN Throw(EnvGuardianError(<<"must be one of", key, config.values.v, value>>, <<key>>))
  ELSE Return(JSStr(value))

\* The custom validators of the README: BACKUP_SCHEDULE (five space-separated
\* parts) and APP_VERSION (/^\d+\.\d+\.\d+$/).  Both throw a plain Error.
CustomFunction(fn, value, key, config) ==
  CASE fn = "cron" ->
         IF Len(Split(value, <<" ">>)) # 5
           THEN Throw(PlainError(<<"must be a valid cron expression", key>>))
           ELSE Return(JSStr(value))
    [] fn = "semver" ->
         LET parts == Split(value, <<".">>)
         IN IF Len(parts) # 3 \/ \E k \in 1..Len(parts) : parts[k] = <<>> \/ ~AllDigits(parts[k])
              THEN Throw(PlainError(<<"must be a valid semantic version", key>>))
              ELSE Return(JSStr(value))
    [] OTHER -> Return(JSStr(value))

parseValue(value, type, key, config) ==
  IF type.fn THEN CustomFunction(type.tag, value, key, config)
  ELSE CASE type.tag = "string" -> validateString(value, key, config)
         [] type.tag = "number" -> validateNumber(value, key, config)
         [] type.tag = "boolean" -> validateBoolean(value, key)
         [] type.tag = "array" -> validateArray(value, key, config)
         [] type.tag = "url" -> validateUrl(value, key, config)
         [] type.tag = "email" -> validateEmail(value, key)
         [] type.tag = "enum" -> validateEnum(value, key, config)
         [] OTHER -> Return(JSStr(value))

\* ------------------------------------------------------------ field configs
Tag(t) == [fn |-> FALSE, tag |-> t]

Fn(f) == [fn |-> TRUE, tag |-> f]

\* a ValidationConfig with every property undefined
EmptyConfig ==
  [type |-> {}, required |-> FALSE, default |-> JSUndef,
   minLength |-> {}, maxLength |-> {}, pattern |-> {},
   min |-> {}, max |-> {}, integer |-> FALSE,
   separator |-> <<>>, protocols |-> {}, values |-> JSUndef]

OfType(t) == [EmptyConfig EXCEPT !.type = {t}]

\* a schema entry: a config object, a bare type (tag or function), or null
Obj(cfg) == [shape |-> "object", cfg |-> cfg]

Bare(t) == [shape |-> "bare", cfg |-> OfType(t)]

NullDefinition == [shape |-> "null", cfg |-> EmptyConfig]

\* truthiness of a JavaScript value
Truthy(v) ==
  CASE v.t = "boolean" -> v.v
    [] v.t = "number" -> v.v # 0
    [] v.t = "string" -> v.v # <<>>
    [] v.t = "array" -> TRUE
    [] OTHER -> FALSE

\* this.options = { loadDotenv: true, dotenvPath: '.env', strict: false, ...options }
\* with options.strict either not given ({}) or given as some value
Constructor(options) ==
  [strict |-> IF options.strict = {} THEN JSBool(FALSE) ELSE Opt(options.strict)]

\* FieldOutcome with the default consulted before the required check
FieldOutcome_DefaultBeforeRequired(key, definition, raw) ==
  IF definition.shape = "null"
    THEN [kind |-> "throw", called |-> FALSE, val |-> <<>>,
          err |-> <<TypeError(<<"Cannot destructure property of null">>)>>]
  ELSE
    LET config == definition.cfg
        type == IF config.type = {} THEN Tag("string") ELSE Opt(config.type)
        absent == raw = {} \/ Opt(raw) = <<>>
        value == IF absent THEN ToStringJS(config.default) ELSE Opt(raw)
        parsed == parseValue(value, type, key, config)
    IN IF absent /\ config.default = JSUndef /\ config.required
         THEN [kind |-> "missing", called |-> FALSE, val |-> <<>>,
               err |-> <<EnvGuardianError(<<"Missing required environment variable", key>>, <<key>>)>>]
       ELSE IF absent /\ config.default = JSUndef
         THEN [kind |-> "unset", called |-> FALSE, val |-> <<JSUndef>>, err |-> <<>>]
       ELSE IF parsed.ok
         THEN [kind |-> "value", called |-> TRUE, val |-> <<parsed.val>>, err |-> <<>>]
       ELSE [kind |-> "throw", called |-> TRUE, val |-> <<>>, err |-> <<parsed.err>>]

\* FieldOutcome with the default stored as it is, without String() and coercion
FieldOutcome_DefaultUncoerced(key, definition, raw) ==
  IF definition.shape = "null"
    THEN [kind |-> "throw", called |-> FALSE, val |-> <<>>,
          err |-> <<TypeError(<<"Cannot destructure property of null">>)>>]
  ELSE
    LET config == definition.cfg
        type == IF config.type = {} THEN Tag("string") ELSE Opt(config.type)
        absent == raw = {} \/ Opt(raw) = <<>>
        parsed == parseValue(Opt(raw), type, key, config)
    IN IF absent /\ config.required
         THEN [kind |-> "missing", called |-> FALSE, val |-> <<>>,
               err |-> <<EnvGuardianError(<<"Missing required environment variable", key>>, <<key>>)>>]
       ELSE IF absent /\ config.default = JSUndef
         THEN [kind |-> "unset", called |-> FALSE, val |-> <<JSUndef>>, err |-> <<>>]
       ELSE IF absent
         THEN [kind |-> "value", called |-> FALSE, val |-> <<config.default>>, err |-> <<>>]
       ELSE IF parsed.ok
         THEN [kind |-> "value", called |-> TRUE, val |-> <<parsed.val>>, err |-> <<>>]
       ELSE [kind |-> "throw", called |-> TRUE, val |-> <<>>, err |-> <<parsed.err>>]

\* ------------------------------------------------------- one loop iteration
\* The body of the for loop of validate for one schema entry, up to the point
\* where the outcome is stored: kind is "missing" (required, absent: error
\* pushed, continue), "unset" (result[key] = undefined, continue), "value"
\* (parseValue returned) or "throw" (something threw inside the try block).
\* called tells whether parseValue was invoked.
FieldOutcome(key, definition, raw) ==
  IF definition.shape = "null"
    THEN [kind |-> "throw", called |-> FALSE, val |-> <<>>,
          err |-> <<TypeError(<<"Cannot destructure property of null">>)>>]
  ELSE
    LET config == definition.cfg
        type == IF config.type = {} THEN Tag("string") ELSE Opt(config.type)
        absent == raw = {} \/ Opt(raw) = <<>>
        value == IF absent THEN ToStringJS(config.default) ELSE Opt(raw)
        parsed == parseValue(value, type, key, config)
    IN IF absent /\ config.required
         THEN [kind |-> "missing", called |-> FALSE, val |-> <<>>,
               err |-> <<EnvGuardianError(<<"Missing required environment variable", key>>, <<key>>)>>]
       ELSE IF absent /\ config.default = JSUndef
         THEN [kind |-> "unset", called |-> FALSE, val |-> <<JSUndef>>, err |-> <<>>]
       ELSE IF parsed.ok
         THEN [kind |-> "value", called |-> TRUE, val |-> <<parsed.val>>, err |-> <<>>]
       ELSE [kind |-> "throw", called |-> TRUE, val |-> <<>>, err |-> <<parsed.err>>]

\* ------------------------------------------------------------------- inputs
KeyNames == <<"K1", "K2", "K3", "K4">>

\* process.env values looked up by the model ({} is undefined)
s42 == <<"4", "2">>
sFrac == <<"1", ".", "5">>
sNeg == <<"-", "3">>
sAbc == <<"a", "b", "c">>
sYes == <<"Y", "e", "s">>
sZero == <<"0">>
sList == <<"a", ",", " ", "b", " ", ",", "c">>
sSemi == <<"a", ";", "b">>
sUrlP == <<"p", ":", "/", "/", "h">>
sUrlM == <<"m", ":", "/", "/", "h">>
sUrlBad == <<"h", "t", "t", "p", ":", "/", "/">>
sMail == <<"a", "@", "b", ".", "c">>
sA == <<"a">>
sVer == <<"1", ".", "0", ".", "0">>
sCron == <<"0", " ", "2", " ", "*", " ", "*", " ", "*">>
sSpace == <<" ">>

WideRaw ==
  {{}, {<<>>}, {s42}, {sFrac}, {sNeg}, {sAbc}, {sYes}, {sZero}, {sList}, {sSemi},
   {sUrlP}, {sUrlM}, {sUrlBad}, {sMail}, {sA}, {sVer}, {sCron}, {sSpace}}

WideDefaults ==
  {JSUndef, JSNull, JSNum(30), JSNum(15), JSBool(FALSE), JSStr(<<>>), JSStr(sA),
   JSStr(sUrlM), JSArr(<<sA, sAbc>>)}

WideTypes ==
  {EmptyConfig,
   OfType(Tag("string")),
   [OfType(Tag("string")) EXCEPT !.minLength = {2}],
   [OfType(Tag("string")) EXCEPT !.maxLength = {2}],
   [OfType(Tag("string")) EXCEPT !.minLength = {0}, !.maxLength = {0}],
   [OfType(Tag("string")) EXCEPT !.pattern = {"alnum"}],
   OfType(Tag("number")),
   [OfType(Tag("number")) EXCEPT !.min = {0}, !.max = {100}],
   [OfType(Tag("number")) EXCEPT !.integer = TRUE],
   OfType(Tag("boolean")),
   OfType(Tag("array")),
   [OfType(Tag("array")) EXCEPT !.separator = <<";">>],
   [OfType(Tag("array")) EXCEPT !.minLength = {2}],
   [OfType(Tag("array")) EXCEPT !.maxLength = {2}],
   [OfType(Tag("array")) EXCEPT !.maxLength = {0}],
   OfType(Tag("url")),
   [OfType(Tag("url")) EXCEPT !.protocols = {<<<<"p">>>>}],
   OfType(Tag("email")),
   [OfType(Tag("enum")) EXCEPT !.values = JSArr(<<sA, <<"b">>>>)],
   OfType(Tag("enum")),
   [OfType(Tag("enum")) EXCEPT !.values = JSStr(sA)],
   OfType(Fn("cron")),
   OfType(Fn("semver")),
   OfType(Tag("json"))}

WideDefinitions ==
  {Obj([c EXCEPT !.required = r, !.default = d]) :
     c \in WideTypes, r \in BOOLEAN, d \in WideDefaults}
  \cup {Bare(Tag("number")), Bare(Tag("boolean")), Bare(Fn("cron")), NullDefinition}

DeepRaw == {{}, {s42}, {sAbc}, {sUrlM}}

DeepDefinitions ==
  {Obj([OfType(Tag("number")) EXCEPT !.required = TRUE, !.default = JSNum(30)]),
   Obj([OfType(Tag("number")) EXCEPT !.max = {100}, !.default = JSNum(2000)]),
   Obj(OfType(Tag("enum"))),
   Obj(OfType(Fn("cron"))),
   Obj([OfType(Tag("url")) EXCEPT !.protocols = {<<<<"p">>>>}]),
   Bare(Tag("string"))}

StrictOptions == {{}, {JSBool(TRUE)}, {JSBool(FALSE)}, {JSUndef}, {JSNull}, {JSNum(0)}}

EntryPoints == {"validate", "envGuardian"}

\* -------------------------------------------------------------------- state
VARIABLES
  schema,    \* Object.entries(schema): sequence of [key, definition]
  env,       \* process.env restricted to the schema's keys
  options,   \* this.options
  entry,     \* which public operation the caller invoked
  pc,        \* "loop", "validateReturned", "validateRaised",
             \* "wrapperReturned", "wrapperRaised"
  i,         \* index of the schema entry the for loop handles next
  result,    \* the local `result` object of validate
  errors,    \* the local `errors` array of validate
  calls,     \* keys for which parseValue has been invoked, in order
  visited,   \* keys whose loop iteration has run, in order
  thrown,    \* <<e>> once an exception e has left the running operation
  ret,       \* <<r>> once validate has returned r
  wret       \* <<v>> once envGuardian has returned v

vars == <<schema, env, options, entry, pc, i, result, errors, calls, visited, thrown, ret, wret>>

inputs == <<schema, env, options, entry>>

EmptyObject == [k \in {} |-> JSUndef]

InitRun ==
  /\ pc = "loop"
  /\ i = 1
  /\ result = EmptyObject
  /\ errors = <<>>
  /\ calls = <<>>
  /\ visited = <<>>
  /\ thrown = <<>>
  /\ ret = <<>>
  /\ wret = <<>>

\* a one-field schema over the wide input sets
InitWide ==
  /\ \E d \in WideDefinitions : schema = <<[key |-> KeyNames[1], definition |-> d]>>
  /\ env \in [{KeyNames[1]} -> WideRaw]

\* a schema of up to MaxFields fields over the deep input sets
InitDeep ==
  \E n \in 1..MaxFields :
    /\ \E ds \in [1..n -> DeepDefinitions] :
         schema = [k \in 1..n |-> [key |-> KeyNames[k], definition |-> ds[k]]]
    /\ env \in [{KeyNames[k] : k \in 1..n} -> DeepRaw]

Init ==
  /\ InitWide \/ InitDeep
  /\ \E o \in StrictOptions : options = Constructor([strict |-> o])
  /\ entry \in EntryPoints
  /\ InitRun

\* ------------------------------------------------------------------ actions
Key == schema[i].key

Outcome == FieldOutcome(Key, schema[i].definition, env[Key])

InLoop == pc = "loop" /\ i <= Len(schema)

Visit ==
  /\ visited' = Append(visited, Key)
  /\ calls' = IF Outcome.called THEN Append(calls, Key) ELSE calls

\* errors.push(new EnvGuardianError(`Missing required ...`, key)); continue
FieldMissingRequired ==
  /\ InLoop
  /\ Outcome.kind = "missing"
  /\ errors' = Append(errors, Outcome.err[1])
  /\ i' = i + 1
  /\ Visit
  /\ UNCHANGED <<inputs, pc, result, thrown, ret, wret>>

\* result[key] = undefined; continue
FieldUnset ==
  /\ InLoop
  /\ Outcome.kind = "unset"
  /\ result' = [k \in DOMAIN result \cup {Key} |-> IF k = Key THEN JSUndef ELSE result[k]]
  /\ i' = i + 1
  /\ Visit
  /\ UNCHANGED <<inputs, pc, errors, thrown, ret, wret>>

\* result[key] = this.parseValue(value, type, key, config)
FieldCoerced ==
  /\ InLoop
  /\ Outcome.kind = "value"
  /\ result' = [k \in DOMAIN result \cup {Key} |-> IF k = Key THEN Outcome.val[1] ELSE result[k]]
  /\ i' = i + 1
  /\ Visit
  /\ UNCHANGED <<inputs, pc, errors, thrown, ret, wret>>

\* catch (error) { if (this.options.strict) throw error; ... }
FieldThrowStrict ==
  /\ InLoop
  /\ Outcome.kind = "throw"
  /\ Truthy(options.strict)
  /\ thrown' = <<Outcome.err[1]>>
  /\ pc' = "validateRaised"
  /\ Visit
  /\ UNCHANGED <<inputs, i, result, errors, ret, wret>>

\* FieldCollect with the error put at the front of the list
FieldCollect_Unshift ==
  /\ InLoop
  /\ Outcome.kind = "throw"
  /\ ~Truthy(options.strict)
  /\ errors' = <<Outcome.err[1]>> \o errors
  /\ i' = i + 1
  /\ Visit
  /\ UNCHANGED <<inputs, pc, result, thrown, ret, wret>>

\* FieldCollect with result[key] = undefined assigned in the catch clause
FieldCollect_AssignsUndefined ==
  /\ InLoop
  /\ Outcome.kind = "throw"
  /\ ~Truthy(options.strict)
  /\ errors' = Append(errors, Outcome.err[1])
  /\ result' = [k \in DOMAIN result \cup {Key} |-> IF k = Key THEN JSUndef ELSE result[k]]
  /\ i' = i + 1
  /\ Visit
  /\ UNCHANGED <<inputs, pc, thrown, ret, wret>>

\* catch (error) { ...; errors.push(error); }
FieldCollect ==
  /\ InLoop
  /\ Outcome.kind = "throw"
  /\ ~Truthy(options.strict)
  /\ errors' = Append(errors, Outcome.err[1])
  /\ i' = i + 1
  /\ Visit
  /\ UNCHANGED <<inputs, pc, result, thrown, ret, wret>>

AfterLoop == pc = "loop" /\ i > Len(schema)

\* SummaryError built from the first recorded message only
SummaryError_FirstMessageOnly ==
  EnvGuardianError(<<"Environment validation failed", <<errors[1].message>>>>, <<>>)

SummaryError ==
  EnvGuardianError(<<"Environment validation failed", [k \in 1..Len(errors) |-> errors[k].message]>>, <<>>)

\* ValidateThrowSummary without the `strict !== false` test
ValidateThrowSummary_AnyMode ==
  /\ AfterLoop
  /\ Len(errors) > 0
  /\ thrown' = <<SummaryError>>
  /\ pc' = "validateRaised"
  /\ UNCHANGED <<inputs, i, result, errors, calls, visited, ret, wret>>

\* if (errors.length > 0 && this.options.strict !== false) throw new EnvGuardianError(...)
ValidateThrowSummary ==
  /\ AfterLoop
  /\ Len(errors) > 0 /\ options.strict # JSBool(FALSE)
  /\ thrown' = <<SummaryError>>
  /\ pc' = "validateRaised"
  /\ UNCHANGED <<inputs, i, result, errors, calls, visited, ret, wret>>

\* return { values: result, errors: errors.length > 0 ? errors : null, isValid: ... }
\* (errors null is {} here)
ValidateReturn ==
  /\ AfterLoop
  /\ ~(Len(errors) > 0 /\ options.strict # JSBool(FALSE))
  /\ ret' = <<[values |-> result,
               errors |-> IF Len(errors) > 0 THEN {errors} ELSE {},
               isValid |-> Len(errors) = 0]>>
  /\ pc' = "validateReturned"
  /\ UNCHANGED <<inputs, i, result, errors, calls, visited, thrown, wret>>

\* envGuardian: an exception of guardian.validate(schema) passes through
WrapperPropagate ==
  /\ entry = "envGuardian"
  /\ pc = "validateRaised"
  /\ pc' = "wrapperRaised"
  /\ UNCHANGED <<inputs, i, result, errors, calls, visited, thrown, ret, wret>>

\* if (!result.isValid) throw result.errors[0] || new EnvGuardianError('Validation failed')
WrapperThrow ==
  /\ entry = "envGuardian"
  /\ pc = "validateReturned"
  /\ ~ret[1].isValid
  /\ thrown' = <<Opt(ret[1].errors)[1]>>
  /\ pc' = "wrapperRaised"
  /\ UNCHANGED <<inputs, i, result, errors, calls, visited, ret, wret>>

\* return result.values
WrapperReturn ==
  /\ entry = "envGuardian"
  /\ pc = "validateReturned"
  /\ ret[1].isValid
  /\ wret' = <<ret[1].values>>
  /\ pc' = "wrapperReturned"
  /\ UNCHANGED <<inputs, i, result, errors, calls, visited, thrown, ret>>

Next ==
  \/ FieldMissingRequired
  \/ FieldUnset
  \/ FieldCoerced
  \/ FieldThrowStrict
  \/ FieldCollect
  \/ ValidateThrowSummary
  \/ ValidateReturn
  \/ WrapperPropagate
  \/ WrapperThrow
  \/ WrapperReturn

Spec == Init /\ [][Next]_vars

\* -------------------------------------------------------------- properties
Range(seq) == {seq[k] : k \in 1..Len(seq)}

FieldKey(k) == schema[k].key

\* what the loop body does with schema entry k
OutcomeOf(k) == FieldOutcome(FieldKey(k), schema[k].definition, env[FieldKey(k)])

\* entry k produces an error of some kind
Fails(k) == OutcomeOf(k).kind \in {"missing", "throw"}

ErrorOf(k) == OutcomeOf(k).err[1]

FailingUpTo(n) == {k \in 1..n : k <= Len(schema) /\ Fails(k)}

\* the errors of the failing entries among 1..n, in schema order
RECURSIVE ErrorsUpTo(_)
ErrorsUpTo(n) ==
  IF n = 0 THEN <<>>
  ELSE IF Fails(n) THEN Append(ErrorsUpTo(n - 1), ErrorOf(n))
  ELSE ErrorsUpTo(n - 1)

KeysUpTo(n) == [k \in 1..n |-> FieldKey(k)]

ValidateReturned == ret # <<>>

ValidateRaised == pc = "validateRaised" \/ (pc = "wrapperRaised" /\ ret = <<>>)

ValidateDone == pc # "loop"

StrictTrue == options.strict = JSBool(TRUE)

StrictFalse == options.strict = JSBool(FALSE)

\* C1: whenever validate returns a ValidationResult, every field name of the
\* schema is a key of the result's `values` mapping.
C1_EverySchemaKeyInValues ==
  ValidateReturned =>
    \A k \in 1..Len(schema) : FieldKey(k) \in DOMAIN ret[1].values

\* C2: with strict = true, validate raises at the first field (in schema
\* order) that produces an error of any kind; the error raised is that
\* field's own error, no later field is processed and no result is returned.
C2_StrictRaisesAtFirstError ==
  (StrictTrue /\ FailingUpTo(Len(schema)) # {}) =>
    LET f == CHOOSE k \in FailingUpTo(Len(schema)) : \A j \in FailingUpTo(Len(schema)) : k <= j
    IN /\ Len(visited) <= f
       /\ \A k \in (f + 1)..Len(schema) : FieldKey(k) \notin Range(calls)
       /\ ValidateDone => (~ValidateReturned /\ thrown = <<ErrorOf(f)>>)

\* C3: with strict = false, validate processes every schema field exactly
\* once, in schema order, whatever failed before, and the error list holds
\* exactly one error per failing field, in schema order.
C3_CollectAllInSchemaOrder ==
  StrictFalse =>
    /\ pc = "loop" => (visited = KeysUpTo(i - 1) /\ errors = ErrorsUpTo(i - 1))
    /\ ValidateDone =>
         /\ visited = KeysUpTo(Len(schema))
         /\ errors = ErrorsUpTo(Len(schema))
         /\ Len(errors) = Cardinality(FailingUpTo(Len(schema)))

C3_Witness ==
  /\ StrictFalse
  /\ ValidateReturned
  /\ Len(schema) >= 2
  /\ Len(errors) >= 2
  /\ errors[1] # errors[2]

\* C4: with strict = false, validate never raises: it returns a result that
\* holds the value mapping and the list of all errors, and isValid is false
\* exactly when that list is non-empty.
C4_CollectAllNeverRaises ==
  StrictFalse =>
    /\ ~ValidateRaised
    /\ ValidateDone => ValidateReturned
    /\ ValidateReturned =>
         /\ ret[1].values = result
         /\ ret[1].errors = (IF FailingUpTo(Len(schema)) # {}
                               THEN {ErrorsUpTo(Len(schema))} ELSE {})
         /\ (~ret[1].isValid) <=> (\E l \in ret[1].errors : Len(l) > 0)

C4_Witness ==
  /\ StrictFalse
  /\ pc = "validateReturned"
  /\ ~ret[1].isValid
  /\ \E k \in 1..Len(schema) : OutcomeOf(k).kind = "missing"
  /\ \E k \in 1..Len(schema) : OutcomeOf(k).kind = "throw"

\* an enum field whose `values` is missing or not a list, reaching its coercer
EnumMisconfigured(k) ==
  /\ schema[k].definition.shape # "null"
  /\ schema[k].definition.cfg.type = {Tag("enum")}
  /\ schema[k].definition.cfg.values.t # "array"
  /\ OutcomeOf(k).called

\* C5: when a misconfigured enum field is coerced, validate raises the
\* configuration error at once in both modes; the error is never appended
\* to the error list and no later field is processed.
C5_EnumConfigErrorRaisedInBothModes ==
  \A k \in 1..Len(schema) :
    (EnumMisconfigured(k) /\ Len(visited) >= k) =>
      /\ ValidateRaised
      /\ thrown = <<ErrorOf(k)>>
      /\ ErrorOf(k) \notin Range(errors)
      /\ Len(visited) = k

WrapperDone == pc \in {"wrapperReturned", "wrapperRaised"}

\* C6: whatever the options, envGuardian returns exactly the value mapping
\* when no field fails and otherwise raises the error of the earliest
\* failing field, never a different error.
C6_WrapperRaisesFirstFieldError ==
  (entry = "envGuardian" /\ WrapperDone) =>
    IF FailingUpTo(Len(schema)) = {}
      THEN pc = "wrapperReturned" /\ wret = <<result>>
      ELSE LET f == CHOOSE k \in FailingUpTo(Len(schema)) : \A j \in FailingUpTo(Len(schema)) : k <= j
           IN pc = "wrapperRaised" /\ thrown = <<ErrorOf(f)>>

RequiredAbsent(k) ==
  /\ k \in 1..Len(schema)
  /\ schema[k].definition.shape # "null"
  /\ schema[k].definition.cfg.required
  /\ env[FieldKey(k)] \in {{}, {<<>>}}

MissingRequiredError(k) ==
  EnvGuardianError(<<"Missing required environment variable", FieldKey(k)>>, <<FieldKey(k)>>)

Count(seq, x) == Cardinality({j \in 1..Len(seq) : seq[j] = x})

DefaultUsed(k) ==
  /\ schema[k].definition.shape # "null"
  /\ ~schema[k].definition.cfg.required
  /\ schema[k].definition.cfg.default # JSUndef
  /\ env[FieldKey(k)] \in {{}, {<<>>}}

\* what the loop body does with entry k when its source value is String(default)
OutcomeWithDefaultAsSource(k) ==
  FieldOutcome(FieldKey(k), schema[k].definition, {ToStringJS(schema[k].definition.cfg.default)})

\* C9: for an optional field that is absent or empty and has default D, the
\* outcome (coerced value or error) is the outcome of the same field spec
\* with source value String(D).
C9_DefaultGoesThroughCoercion ==
  \A k \in 1..Len(schema) :
    (DefaultUsed(k) /\ Len(visited) >= k) =>
      LET o == OutcomeWithDefaultAsSource(k)
      IN /\ o.kind \in {"value", "throw"}
         /\ FieldKey(k) \in Range(calls)
         /\ o.kind = "value" =>
              /\ FieldKey(k) \in DOMAIN result
              /\ result[FieldKey(k)] = o.val[1]
         /\ o.kind = "throw" =>
              /\ FieldKey(k) \notin DOMAIN result
              /\ IF Truthy(options.strict)
                   THEN thrown = <<o.err[1]>> /\ Len(visited) = k
                   ELSE o.err[1] \in Range(errors)

C9_Witness ==
  /\ Len(visited) >= 1
  /\ DefaultUsed(1)
  /\ schema[1].definition.cfg.default = JSNum(2000)
  /\ errors # <<>>
  /\ errors[1].message[1] = "must be no more than"

\* the raw string handed to the coercer of entry k
EffectiveValue(k) ==
  IF env[FieldKey(k)] \in {{}, {<<>>}}
    THEN ToStringJS(schema[k].definition.cfg.default)
    ELSE Opt(env[FieldKey(k)])

UrlWithProtocols(k) ==
  /\ schema[k].definition.shape # "null"
  /\ schema[k].definition.cfg.type = {Tag("url")}
  /\ schema[k].definition.cfg.protocols # {}
  /\ OutcomeOf(k).called

SchemeOf(value) == SubSeq(Opt(UrlProtocol(value)), 1, Len(Opt(UrlProtocol(value))) - 1)

\* C10: url coercion with a protocols list accepts a parsable value whose
\* scheme is listed (returned unchanged) and rejects a parsable value whose
\* scheme is not listed with an error about the allowed protocols, which
\* differs from the error for a value that does not parse as a URL.
C10_UrlProtocolErrorIsDistinct ==
  \A k \in 1..Len(schema) :
    (UrlWithProtocols(k) /\ Len(visited) >= k /\ UrlProtocol(EffectiveValue(k)) # {}) =>
      IF Includes(Opt(schema[k].definition.cfg.protocols), SchemeOf(EffectiveValue(k)))
        THEN FieldKey(k) \in DOMAIN result /\ result[FieldKey(k)] = JSStr(EffectiveValue(k))
        ELSE \E e \in Range(errors) \cup Range(thrown) :
               /\ e.variable = <<FieldKey(k)>>
               /\ e.message[1] = "must use one of these protocols"
               /\ e.message[1] # "Invalid URL"

\* a field whose declared type is string, number, boolean or array
RoundTripType(k) ==
  /\ schema[k].definition.shape # "null"
  /\ schema[k].definition.cfg.type \in
       {{}, {Tag("string")}, {Tag("number")}, {Tag("boolean")}, {Tag("array")}}

\* entry k has been processed and its raw source value validated to result[key]
ValidatedFromRaw(k) ==
  /\ RoundTripType(k)
  /\ env[FieldKey(k)] \notin {{}, {<<>>}}
  /\ Len(visited) >= k
  /\ FieldKey(k) \in DOMAIN result

\* what the loop body does with entry k when its source value is String(v),
\* v the value stored for the entry
OutcomeFedBack(k) ==
  FieldOutcome(FieldKey(k), schema[k].definition, {ToStringJS(result[FieldKey(k)])})

RoundTrips(k) ==
  /\ OutcomeFedBack(k).kind = "value"
  /\ OutcomeFedBack(k).val[1] = result[FieldKey(k)]

\* C11 as stated: for every field of type string, number, boolean or array
\* (any separator, any constraints) and every raw value that validates to v,
\* validating String(v) with the same field spec succeeds and yields v.
C11_RoundTripAnySeparator ==
  \A k \in 1..Len(schema) : ValidatedFromRaw(k) => RoundTrips(k)

\* C11 amended: the round trip holds for string, number and boolean fields,
\* and for array fields whose separator is "," (the default), whenever
\* String(v) is not the empty string.
C11_RoundTripCommaSeparator ==
  \A k \in 1..Len(schema) :
    (/\ ValidatedFromRaw(k)
     /\ schema[k].definition.cfg.type = {Tag("array")}
          => schema[k].definition.cfg.separator \in {<<>>, <<",">>}
     /\ ToStringJS(result[FieldKey(k)]) # <<>>)
      => RoundTrips(k)

C11_Witness ==
  /\ ValidatedFromRaw(1)
  /\ schema[1].definition.cfg.type = {Tag("array")}
  /\ schema[1].definition.cfg.separator = <<>>
  /\ env[FieldKey(1)] = {sList}
  /\ result[FieldKey(1)] = JSArr(<<<<"a">>, <<"b">>, <<"c">>>>)
  /\ RoundTrips(1)

\* a string or array field whose coercer has been invoked
LengthChecked(k) ==
  /\ schema[k].definition.shape # "null"
  /\ schema[k].definition.cfg.type \in {{}, {Tag("string")}, {Tag("array")}}
  /\ OutcomeOf(k).called
  /\ Len(visited) >= k

IsArrayField(k) == schema[k].definition.cfg.type = {Tag("array")}

\* the number of characters of the raw value, or of items it splits into
MeasuredLength(k) ==
  IF IsArrayField(k)
    THEN Len(Split(EffectiveValue(k),
                   IF schema[k].definition.cfg.separator # <<>>
                     THEN schema[k].definition.cfg.separator ELSE <<",">>))
    ELSE Len(EffectiveValue(k))

\* entry k was rejected with an error of the given message, naming the field
RejectedWith(k, text) ==
  /\ FieldKey(k) \notin DOMAIN result
  /\ \E e \in Range(errors) \cup Range(thrown) :
       e.variable = <<FieldKey(k)>> /\ e.message[1] = text

\* C12: length bounds are enforced for every configured bound value,
\* including 0: below minLength the field is rejected with the minLength
\* error, otherwise above maxLength with the maxLength error (minLength is
\* checked first), for strings on characters and for arrays on items.
C12_LengthBoundsEnforcedIncludingZero ==
  \A k \in 1..Len(schema) :
    LengthChecked(k) =>
      LET cfg == schema[k].definition.cfg
      IN IF cfg.minLength # {} /\ MeasuredLength(k) < Opt(cfg.minLength)
           THEN RejectedWith(k, IF IsArrayField(k) THEN "must have at least items"
                                                   ELSE "must be at least characters long")
         ELSE IF cfg.maxLength # {} /\ MeasuredLength(k) > Opt(cfg.maxLength)
           THEN RejectedWith(k, IF IsArrayField(k) THEN "must have no more than items"
                                                   ELSE "must be no more than characters long")
         ELSE TRUE

\* the j-th failing entry of the schema, in schema order
NthFailing(j) ==
  CHOOSE k \in FailingUpTo(Len(schema)) : Cardinality(FailingUpTo(k)) = j

\* entry k fails for a schema-level reason: enum without a `values` list, or
\* a definition that is not a field spec at all
SchemaLevelFailure(k) ==
  \/ schema[k].definition.shape = "null"
  \/ EnumMisconfigured(k)

\* C13: in collect-all mode every error of the returned list that stems from
\* a field's failure (missing required, type mismatch, constraint violation,
\* custom validator failure) carries the name of its field; only
\* schema-level configuration errors have no field name.
C13_CollectedErrorsCarryFieldName ==
  (StrictFalse /\ ValidateReturned) =>
    \A l \in ret[1].errors : \A j \in 1..Len(l) :
      IF SchemaLevelFailure(NthFailing(j))
        THEN l[j].variable = <<>>
        ELSE l[j].variable = <<FieldKey(NthFailing(j))>>

\* the loop ran to its end: no error was raised while a field was processed
LoopCompleted == i > Len(schema)

\* C14: validate returns a result if and only if no field produced an error
\* or strict is exactly false; when strict is any other value and errors
\* were recorded without being raised per field, validate raises, after all
\* fields were processed, one summary error without field name whose
\* message joins the recorded messages in schema order.
C14_ReturnsIffNoErrorOrStrictFalse ==
  ValidateDone =>
    /\ ValidateReturned <=> (FailingUpTo(Len(schema)) = {} \/ StrictFalse)
    /\ ValidateReturned \/ ValidateRaised
    /\ (~StrictFalse /\ LoopCompleted /\ errors # <<>>) =>
         /\ ValidateRaised
         /\ visited = KeysUpTo(Len(schema))
         /\ errors = ErrorsUpTo(Len(schema))
         /\ thrown = <<EnvGuardianError(
                          <<"Environment validation failed",
                            [j \in 1..Len(errors) |-> ErrorOf(NthFailing(j)).message]>>,
                          <<>>)>>

C14_Witness ==
  /\ options.strict = JSUndef
  /\ pc = "validateRaised"
  /\ LoopCompleted
  /\ Len(errors) = 2
  /\ errors[1].message # errors[2].message
  /\ thrown[1].variable = <<>>

=============================================================================
